---- MODULE Spec2Model ----
(***************************************************************************)
(* Model of mu::converter::ConverterController                             *)
(* (src/converter/internal/convertercontroller.cpp): the batch runner,     *)
(* the job-file parser, the single-job conversion dispatcher and the       *)
(* per-part / page-by-page / whole-document writers.                       *)
(*                                                                         *)
(* A path or string is a sequence of atoms.  The atoms "/", "\\", ".", "*"  *)
(* and the place marker "%1" are what the code inspects; every other atom  *)
(* stands for a run of ordinary characters.                                *)
(***************************************************************************)
EXTENDS Integers, Sequences, FiniteSets, TLC

VARIABLES
    pc,              \* position of the running call, "idle" between calls
    entry,           \* which public method is running
    registry,        \* suffixes for which writers()->writer(suffix) is non-null
    currentProject,  \* globalContext()->currentProject(): 0 is nullptr
    progress,        \* TRUE iff a progress collaborator was supplied
    extensionUri,    \* TRUE iff extensionUri.isValid()
    file,            \* the job file handed to batchConvert
    jobs,            \* batchJob.val
    k,               \* number of loop iterations batchConvert has entered
    current,         \* the progress counter of batchConvert
    errors,          \* StringList errors of batchConvert
    ret,             \* the value returned by the call
    nextDoc,         \* identity of the next project made by newProject
    fc,              \* locals of the running conversion
    openFiles,       \* paths of the File objects that are open
    log              \* calls made by the running call, in order

vars == <<pc, entry, registry, currentProject, progress, extensionUri, file,
          jobs, k, current, errors, ret, nextDoc, fc, openFiles, log>>

-----------------------------------------------------------------------------
(* Bounds *)

MaxObjs == 2        \* job objects in a job file handed to batchConvert
MaxOutLen == 2      \* elements of an "out" array
MaxParts == 2       \* excerpts of a loaded score
MaxPages == 2       \* pages of a notation

-----------------------------------------------------------------------------
(* Result codes *)

Ok == "Ok"
NotSupported == "NotSupported"
BatchJobFileFailedOpen == "BatchJobFileFailedOpen"
BatchJobFileFailedParse == "BatchJobFileFailedParse"
ConvertTypeUnknown == "ConvertTypeUnknown"
InFileFailedLoad == "InFileFailedLoad"
OutFileFailedOpen == "OutFileFailedOpen"
OutFileFailedWrite == "OutFileFailedWrite"
ConvertFailed == "ConvertFailed"
UnknownError == "UnknownError"
\* errors owned by collaborators
TransposeParseError == "TransposeParseError"
TransposeApplyError == "TransposeApplyError"
ExtensionError == "ExtensionError"
SaveError == "SaveError"

NoProject == 0

PDF_SUFFIX == <<"pdf">>
PNG_SUFFIX == <<"png">>
SVG_SUFFIX == <<"svg">>
MP3_SUFFIX == <<"mp3">>
MSCZ == <<"mscz">>
MSCX == <<"mscx">>
MSCS == <<"mscs">>

Placeholder == "*"

-----------------------------------------------------------------------------
(* Strings and paths *)

Contains(s, a) == \E i \in 1..Len(s) : s[i] = a

\* the last position of atom a in s, 0 when there is none
LastIndexOf(s, a) ==
    IF Contains(s, a) THEN CHOOSE i \in 1..Len(s) :
                               s[i] = a /\ \A j \in (i + 1)..Len(s) : s[j] # a
    ELSE 0

\* QString::replace(before, after): every occurrence is replaced
RECURSIVE Replace(_, _, _)
Replace(s, a, t) ==
    IF s = <<>> THEN <<>>
    ELSE (IF Head(s) = a THEN t ELSE <<Head(s)>>) \o Replace(Tail(s), a, t)

\* io::Dir::fromNativeSeparators
fromNativeSeparators(path) == Replace(path, "\\", <<"/">>)

correctUserInputPath(path) == fromNativeSeparators(path)

FileName(path) == SubSeq(path, LastIndexOf(path, "/") + 1, Len(path))

\* io::suffix: what follows the last "." of the file name
suffix(path) ==
    LET f == FileName(path)
        d == LastIndexOf(f, ".")
    IN IF d = 0 THEN <<>> ELSE SubSeq(f, d + 1, Len(f))

\* io::completeBasename: the file name up to its last "."
completeBasename(path) ==
    LET f == FileName(path)
        d == LastIndexOf(f, ".")
    IN IF d = 0 THEN f ELSE SubSeq(f, 1, d - 1)

\* io::dirpath: the directory of the path, "." when it names none
dirpath(path) ==
    LET s == LastIndexOf(path, "/")
    IN IF s = 0 THEN <<".">> ELSE IF s = 1 THEN <<"/">> ELSE SubSeq(path, 1, s - 1)

-----------------------------------------------------------------------------
(* The job file: QJsonValue, as far as parseBatchJob reads it *)

JString(s) == [t |-> "string", s |-> s]
JArray(a) == [t |-> "array", a |-> a]
JOther == [t |-> "other"]

\* QJsonValue::toString(): the null string for a value that is no string
toString(v) == IF v.t = "string" THEN v.s ELSE <<>>

\* sequences over S of length 0..n
SeqUpTo(S, n) == UNION {[1..m -> S] : m \in 0..n}

\* a Job; transposeOptions is "none" for std::nullopt
Job(in, out, topts) == [in |-> in, out |-> out, transposeOptions |-> topts]

\* ConverterUtils::parseTransposeOptions(QJsonObject): the job file's
\* "transpose" member is "none" (absent or empty), "bad" or an options value
parseTransposeOptions(t) ==
    IF t = "bad" THEN [ret |-> TransposeParseError, val |-> "none"]
    ELSE [ret |-> Ok, val |-> t]

\* lines 293-300: the output of the job made for one element of outArray
partOut(outItem) ==
    IF outItem.t = "string" THEN correctUserInputPath(toString(outItem))
    ELSE IF outItem.t = "array" /\ Len(outItem.a) = 2
    THEN correctUserInputPath(toString(outItem.a[1]))
             \o <<Placeholder>> \o toString(outItem.a[2])
    ELSE <<>>

\* a plausible slip: the copy of the parent job is default-constructed
partJobFresh(job, outItem) == Job(<<>>, partOut(outItem), "none")

\* lines 292-301: Job partJob = job, then its out is set
partJob(job, outItem) == [job EXCEPT !.out = partOut(outItem)]

RECURSIVE expandOutArray(_, _)
expandOutArray(job, outArray) ==
    IF outArray = <<>> THEN <<>>
    ELSE <<partJob(job, Head(outArray))>> \o expandOutArray(job, Tail(outArray))

\* lines 285-303: the jobs one object adds once its transpose is parsed
jobsOfOut(job, outValue) ==
    IF outValue.t = "string"
    THEN <<[job EXCEPT !.out = correctUserInputPath(toString(outValue))]>>
    ELSE IF outValue.t = "array" THEN expandOutArray(job, outValue.a)
    ELSE <<>>

\* a plausible slip: an object whose transform fails to parse is skipped
RECURSIVE parseObjectsSkipBad(_, _)
parseObjectsSkipBad(arr, val) ==
    IF arr = <<>> THEN [ret |-> Ok, val |-> val]
    ELSE LET obj == Head(arr)
             tr == parseTransposeOptions(obj.transpose)
             job == Job(correctUserInputPath(toString(obj.in)), <<>>, tr.val)
         IN IF obj.transpose # "none" /\ tr.ret # Ok
            THEN parseObjectsSkipBad(Tail(arr), val)
            ELSE parseObjectsSkipBad(Tail(arr), val \o jobsOfOut(job, obj.out))

\* lines 271-304: the loop over the array, rv threaded through
RECURSIVE parseObjects(_, _)
parseObjects(arr, val) ==
    IF arr = <<>> THEN [ret |-> Ok, val |-> val]
    ELSE LET obj == Head(arr)
             tr == parseTransposeOptions(obj.transpose)
             job == Job(correctUserInputPath(toString(obj.in)), <<>>, tr.val)
         IN IF obj.transpose # "none" /\ tr.ret # Ok
            THEN [ret |-> tr.ret, val |-> val]
            ELSE parseObjects(Tail(arr), val \o jobsOfOut(job, obj.out))

\* lines 245-308.  file.state: "unreadable" | "malformed" | "notarray" | "array"
parseBatchJob(f) ==
    IF f.state = "unreadable" THEN [ret |-> BatchJobFileFailedOpen, val |-> <<>>]
    ELSE IF f.state # "array" THEN [ret |-> BatchJobFileFailedParse, val |-> <<>>]
    ELSE parseObjects(f.arr, <<>>)

-----------------------------------------------------------------------------
(* Inputs *)

InA == <<"a", ".", "ext">>
InB == <<"d", "\\", "a", ".", "ext">>

\* writer registries: every kind registered, or none for the native kinds
AllWriters == {PDF_SUFFIX, PNG_SUFFIX, SVG_SUFFIX, MP3_SUFFIX, MSCZ, MSCX}
Registries == {AllWriters, AllWriters \ {MSCZ, MSCX}}

\* output paths of the direct calls: directory, base name, suffix
OutDirs == {<<>>, <<"p", "/">>, <<"*", "/">>}
OutBases == {<<"b">>, <<"*">>}
OutSuffixes == {PDF_SUFFIX, PNG_SUFFIX, SVG_SUFFIX, MP3_SUFFIX, MSCZ, MSCX, <<"xyz">>}
CallOuts == {d \o b \o <<".">> \o x : d \in OutDirs, b \in OutBases, x \in OutSuffixes}
            \cup {<<"*", "_", "*", ".", "pdf">>}

\* projectRW(): the suffixes it has a project writer for, and the outputs
\* exportScoreVideo is called with
ProjectWriters == {<<"mp4">>}
VideoOuts == {<<"v", ".", "mp4">>, <<"p", "/", "v", ".", "mp4">>, <<"b", ".", "pdf">>}

\* what the loader and applyTranspose may return
LoadRets == {Ok, "LoadErrorNotFound", "LoadErrorCorrupted"}
TransposeRets == {Ok, TransposeApplyError, "TransposeErrorRange"}

\* transposeOptionsJson of the string overload of fileConvert: "none" is empty
TransposeJsons == {"none", "t1", "bad"}

\* names of excerpts, and the excerpt lists a loaded score may have
PartNames == {<<"Violin">>, <<"Cello">>}
PartLists == SeqUpTo(PartNames, MaxParts)
PageCounts == 0..MaxPages

\* job files of batchConvert: a plain job, an array with a string and a
\* [prefix, suffix] pair, an array of two outputs with a transform, and an
\* object whose transform does not parse
PairItem == JArray(<<JString(<<"p", "\\">>), JString(<<"pdf">>)>>)
BatchOuts == {JString(<<"b", ".", "pdf">>),
              JArray(<<JString(<<"c", ".", "mscz">>), PairItem>>),
              JArray(<<JString(<<"b", ".", "pdf">>), JString(<<"c", ".", "mscz">>)>>)}
BatchObjs == {[in |-> JString(InA), transpose |-> "none", out |-> JString(<<"b", ".", "pdf">>)],
              [in |-> JString(InB), transpose |-> "none",
               out |-> JArray(<<JString(<<"c", ".", "mscz">>), PairItem>>)],
              [in |-> JString(InA), transpose |-> "t1",
               out |-> JArray(<<JString(<<"b", ".", "pdf">>),
                                JString(<<"c", ".", "mscz">>)>>)],
              [in |-> JString(InB), transpose |-> "bad", out |-> JString(<<"b", ".", "pdf">>)]}
\* the job files tried have at most one object with an array "out"
AtMostOneArrayOut(a) == Cardinality({i \in 1..Len(a) : a[i].out.t = "array"}) <= 1
BatchFiles == {[state |-> s, arr |-> <<>>] : s \in {"unreadable", "malformed", "notarray"}}
              \cup {[state |-> "array", arr |-> a] :
                        a \in {x \in SeqUpTo(BatchObjs, MaxObjs) : AtMostOneArrayOut(x)}}

NoFile == [state |-> "none", arr |-> <<>>]

\* job files given to parseBatchJob on its own: every shape of "out"
ParseItems == {JString(<<"b", ".", "pdf">>), PairItem, JOther}
ParseOuts == {JString(<<"d", "\\", "c", ".", "svg">>), JOther}
             \cup {JArray(a) : a \in SeqUpTo(ParseItems, MaxOutLen)}
ParseObjs == {[in |-> JString(InA), transpose |-> "none", out |-> o] : o \in ParseOuts}
             \cup {[in |-> JString(InB), transpose |-> "t1", out |-> o] : o \in ParseOuts}
             \cup {[in |-> JString(InA), transpose |-> "bad", out |-> JString(<<"b", ".", "pdf">>)]}
ParseFiles == {[state |-> s, arr |-> <<>>] : s \in {"unreadable", "malformed", "notarray"}}
              \cup {[state |-> "array", arr |-> a] : a \in SeqUpTo(ParseObjs, MaxObjs)}

-----------------------------------------------------------------------------
(* Locals of a conversion *)

NoFrame == [in |-> <<>>, out |-> <<>>, topts |-> "none", doc |-> NoProject,
            job |-> 0, defer |-> FALSE, mode |-> "none", parts |-> <<>>, pi |-> 0,
            pages |-> 0, gi |-> 0, pageOut |-> <<>>, target |-> <<>>]

NoRet == [code |-> "none", msg |-> <<>>]

-----------------------------------------------------------------------------
(* batchConvert *)

\* a plausible slip: only a successful run is reported as finished
finishNotificationOnSuccess(prog, r, slot) ==
    IF prog /\ r.code = Ok THEN <<[op |-> "finish", ret |-> r, slot |-> slot]>> ELSE <<>>

\* lines 62-64 and 92-94: progress->finish(ProgressResult(ret))
finishNotification(prog, r, slot) ==
    IF prog THEN <<[op |-> "finish", ret |-> r, slot |-> slot]>> ELSE <<>>

\* lines 55-57
startNotification(prog) == IF prog THEN <<[op |-> "start"]>> ELSE <<>>

\* a plausible slip: the report names the output of the job
progressNotificationOfOut(prog, cur, total, job, slot) ==
    IF prog THEN <<[op |-> "progress", current |-> cur, total |-> total,
                    label |-> job.out, slot |-> slot]>>
    ELSE <<>>

\* lines 73-76
progressNotification(prog, cur, total, job, slot) ==
    IF prog THEN <<[op |-> "progress", current |-> cur, total |-> total,
                    label |-> job.in, slot |-> slot]>>
    ELSE <<>>

\* a plausible slip: the second path argument repeats the first
collectErrorInTwice(errs, code, job) ==
    IF code # Ok THEN Append(errs, [err |-> code, in |-> job.in, out |-> job.in])
    ELSE errs

\* lines 79-82: the formatted entry keeps the error, job.in and job.out
collectError(errs, code, job) ==
    IF code # Ok THEN Append(errs, [err |-> code, in |-> job.in, out |-> job.out])
    ELSE errs

\* a plausible slip: the loop is left at the first failed job
loopDoneAtFirstError(n, js, errs) == n = Len(js) \/ errs # <<>>

\* line 72: the range-for ends after the last job
loopDone(n, js, errs) == n = Len(js)

\* lines 85-90
aggregate(errs) ==
    IF errs # <<>> THEN [code |-> ConvertFailed, msg |-> errs]
    ELSE [code |-> Ok, msg |-> <<>>]

-----------------------------------------------------------------------------
(* Leaving a conversion *)

\* a plausible slip: the slot is cleared before the final return only
slotAtReturnOnSuccess(armed, slot, code) == IF armed /\ code = Ok THEN NoProject ELSE slot

\* DEFER of lines 164-166 runs on every return once it is registered
slotAtReturn(armed, slot, code) == IF armed THEN NoProject ELSE slot

\* File::~File(): the File that goes out of scope is closed if it is open
destroyFile(files, path) == files \ {path}

\* the conversion returns code; lg is the log up to the return.  The File of
\* the returning scope is destroyed.  batchConvert goes on with lines 79-83,
\* a direct call returns the code to its caller.
FinishConvert(code, lg, job, armed) ==
    LET slot == slotAtReturn(armed, currentProject, code)
        files == destroyFile(openFiles, fc.target)
    IN
    /\ currentProject' = slot
    /\ log' = lg \o <<[op |-> "return", job |-> job, code |-> code, slot |-> slot,
                       open |-> files]>>
    /\ fc' = NoFrame
    /\ openFiles' = files
    /\ IF entry' = "batchConvert"
       THEN /\ errors' = collectError(errors, code, jobs[job])
            /\ pc' = "loop"
            /\ ret' = ret
       ELSE /\ errors' = errors
            /\ pc' = "done"
            /\ ret' = [code |-> code, msg |-> <<>>]

\* a step inside a conversion that does not return
Step(label, frame, lg, files) ==
    /\ pc' = label
    /\ fc' = frame
    /\ log' = lg
    /\ openFiles' = files
    /\ UNCHANGED <<currentProject, errors, ret>>

Goto(label, frame, lg) == Step(label, frame, lg, openFiles)

\* a plausible slip: the missing writer is not tested before the load
EnterFileConvertUnchecked(in, out, topts, lg, job, made) ==
    LET sfx == suffix(out)
        found == sfx \in registry
        lg1 == lg \o <<[op |-> "fileConvert", job |-> job, in |-> in, out |-> out],
                      [op |-> "writer", job |-> job, suffix |-> sfx, found |-> found]>>
    IN IF ~made
       THEN /\ FinishConvert(UnknownError,
                             lg1 \o <<[op |-> "newProject", job |-> job, doc |-> NoProject]>>,
                             job, FALSE)
            /\ nextDoc' = nextDoc
       ELSE /\ Goto("load",
                    [NoFrame EXCEPT !.in = in, !.out = out, !.topts = topts,
                                    !.doc = nextDoc, !.job = job],
                    lg1 \o <<[op |-> "newProject", job |-> job, doc |-> nextDoc]>>)
            /\ nextDoc' = nextDoc + 1

\* a plausible slip: the project made for the first job is kept and used again
EnterFileConvertCached(in, out, topts, lg, job, made) ==
    LET sfx == suffix(out)
        found == sfx \in registry
        lg1 == lg \o <<[op |-> "fileConvert", job |-> job, in |-> in, out |-> out],
                      [op |-> "writer", job |-> job, suffix |-> sfx, found |-> found]>>
    IN IF ~found
       THEN /\ FinishConvert(ConvertTypeUnknown, lg1, job, FALSE)
            /\ nextDoc' = nextDoc
       ELSE IF ~made /\ nextDoc = 1
       THEN /\ FinishConvert(UnknownError,
                             lg1 \o <<[op |-> "newProject", job |-> job, doc |-> NoProject]>>,
                             job, FALSE)
            /\ nextDoc' = nextDoc
       ELSE /\ Goto("load",
                    [NoFrame EXCEPT !.in = in, !.out = out, !.topts = topts,
                                    !.doc = 1, !.job = job],
                    IF nextDoc = 1
                    THEN lg1 \o <<[op |-> "newProject", job |-> job, doc |-> 1]>>
                    ELSE lg1)
            /\ nextDoc' = 2

\* lines 129-141 of fileConvert: the writer is looked up, then the project
\* made; made is FALSE when newProject gives no project
EnterFileConvert(in, out, topts, lg, job, made) ==
    LET sfx == suffix(out)
        found == sfx \in registry
        lg1 == lg \o <<[op |-> "fileConvert", job |-> job, in |-> in, out |-> out],
                      [op |-> "writer", job |-> job, suffix |-> sfx, found |-> found]>>
    IN IF ~found
       THEN /\ FinishConvert(ConvertTypeUnknown, lg1, job, FALSE)
            /\ nextDoc' = nextDoc
       ELSE IF ~made
       THEN /\ FinishConvert(UnknownError,
                             lg1 \o <<[op |-> "newProject", job |-> job, doc |-> NoProject]>>,
                             job, FALSE)
            /\ nextDoc' = nextDoc
       ELSE /\ Goto("load",
                    [NoFrame EXCEPT !.in = in, !.out = out, !.topts = topts,
                                    !.doc = nextDoc, !.job = job],
                    lg1 \o <<[op |-> "newProject", job |-> job, doc |-> nextDoc]>>)
            /\ nextDoc' = nextDoc + 1

callInputs == <<entry, file, progress, extensionUri, jobs>>
loopVars == <<k, current>>

-----------------------------------------------------------------------------
(* Output paths *)

\* replaces the first occurrence only
RECURSIVE ReplaceFirst(_, _, _)
ReplaceFirst(s, a, t) ==
    IF s = <<>> THEN <<>>
    ELSE IF Head(s) = a THEN t \o Tail(s)
    ELSE <<Head(s)>> \o ReplaceFirst(Tail(s), a, t)

\* a plausible slip: only the first placeholder of the base name is replaced
partOutPathFirstOnly(out, partName, sfx) ==
    dirpath(out) \o <<"/">> \o ReplaceFirst(completeBasename(out), Placeholder, partName)
        \o <<".">> \o sfx

\* lines 411, 447, 470: the output of one part
partOutPath(out, partName, sfx) ==
    dirpath(out) \o <<"/">> \o Replace(completeBasename(out), Placeholder, partName)
        \o <<".">> \o sfx

\* String::arg: the place marker %1 is replaced wherever it stands
arg(s, a) == Replace(s, "%1", <<a>>)

\* a plausible slip: the file of page i is numbered i, as the writer option is
pageFilePathZeroBased(out, i) ==
    arg(dirpath(out) \o <<"/">> \o completeBasename(out) \o <<"-", "%1", ".">>
            \o suffix(out),
        ToString(i))

\* lines 351-353: the output of page i (0-based), numbered i + 1
pageFilePath(out, i) ==
    arg(dirpath(out) \o <<"/">> \o completeBasename(out) \o <<"-", "%1", ".">>
            \o suffix(out),
        ToString(i + 1))

\* lines 336-344
isConvertPageByPage(sfx) == sfx \in {PNG_SUFFIX, SVG_SUFFIX}

\* line 183
isNativeSuffix(sfx) == sfx = MSCZ \/ sfx = MSCX \/ sfx = MSCS

\* a plausible slip: the native formats are tested before the extension
strategyOfNativeFirst(out, ext) ==
    IF Contains(completeBasename(out), Placeholder) THEN "convertScoreParts"
    ELSE IF isNativeSuffix(suffix(out)) THEN "save"
    ELSE IF ext THEN "convertByExtension"
    ELSE IF isConvertPageByPage(suffix(out)) THEN "convertPageByPage"
    ELSE "convertFullNotation"

\* a plausible slip: the extension is tested before the placeholder
strategyOfExtensionFirst(out, ext) ==
    IF ext THEN "convertByExtension"
    ELSE IF Contains(completeBasename(out), Placeholder) THEN "convertScoreParts"
    ELSE IF isNativeSuffix(suffix(out)) THEN "save"
    ELSE IF isConvertPageByPage(suffix(out)) THEN "convertPageByPage"
    ELSE "convertFullNotation"

\* lines 168-198: the branch fileConvert takes
strategyOf(out, ext) ==
    IF Contains(completeBasename(out), Placeholder) THEN "convertScoreParts"
    ELSE IF ext THEN "convertByExtension"
    ELSE IF isNativeSuffix(suffix(out)) THEN "save"
    ELSE IF isConvertPageByPage(suffix(out)) THEN "convertPageByPage"
    ELSE "convertFullNotation"

-----------------------------------------------------------------------------
(* Public calls *)

\* batchConvert, lines 50-71: start, parse, and the early return
BatchConvertCall(f, prog, ext) ==
    /\ pc = "idle"
    /\ LET rv == parseBatchJob(f)
           lg == startNotification(prog)
           r == [code |-> rv.ret, msg |-> <<>>]
       IN /\ entry' = "batchConvert"
          /\ file' = f
          /\ progress' = prog
          /\ extensionUri' = ext
          /\ jobs' = rv.val
          /\ IF rv.ret # Ok
             THEN /\ log' = lg \o finishNotification(prog, r, currentProject)
                  /\ ret' = r
                  /\ pc' = "done"
             ELSE /\ log' = lg
                  /\ ret' = ret
                  /\ pc' = "loop"
          /\ UNCHANGED <<registry, currentProject, k, current, errors, nextDoc, fc,
                         openFiles>>

\* one entry into the loop body, lines 72-78, up to the load of fileConvert
BatchNextJob(made) ==
    /\ pc = "loop"
    /\ ~loopDone(k, jobs, errors)
    /\ LET job == jobs[k + 1]
           cur == IF progress THEN current + 1 ELSE current
       IN /\ k' = k + 1
          /\ current' = cur
          /\ UNCHANGED <<registry, callInputs>>
          /\ EnterFileConvert(job.in, job.out, job.transposeOptions,
                              log \o progressNotification(progress, cur, Len(jobs), job,
                                                          currentProject),
                              k + 1, made)

\* lines 85-96
BatchFinish ==
    /\ pc = "loop"
    /\ loopDone(k, jobs, errors)
    /\ ret' = aggregate(errors)
    /\ log' = log \o finishNotification(progress, ret', currentProject)
    /\ pc' = "done"
    /\ UNCHANGED <<registry, callInputs, loopVars, currentProject, errors, nextDoc, fc,
                   openFiles>>

\* fileConvert taking the transpose options as JSON text, lines 99-118
FileConvertCall(in, out, json, ext, made) ==
    /\ pc = "idle"
    /\ entry' = "fileConvert"
    /\ extensionUri' = ext
    /\ UNCHANGED <<registry, file, progress, jobs, loopVars>>
    /\ LET tr == parseTransposeOptions(json)
       IN IF json # "none" /\ tr.ret # Ok
          THEN /\ pc' = "done"
               /\ ret' = [code |-> tr.ret, msg |-> <<>>]
               /\ UNCHANGED <<currentProject, errors, nextDoc, fc, openFiles, log>>
          ELSE EnterFileConvert(in, out, tr.val, log, 0, made)

\* convertScoreParts taking paths, lines 203-223: project, writer, then load;
\* made is FALSE when newProject gives no project
ConvertScorePartsCall(in, out, made) ==
    /\ pc = "idle"
    /\ entry' = "convertScoreParts"
    /\ UNCHANGED <<registry, file, progress, extensionUri, jobs, loopVars>>
    /\ LET sfx == suffix(out)
           found == sfx \in registry
           begin == [op |-> "convertScoreParts", job |-> 0, in |-> in, out |-> out]
           lg == <<begin,
                   [op |-> "newProject", job |-> 0, doc |-> nextDoc],
                   [op |-> "writer", job |-> 0, suffix |-> sfx, found |-> found]>>
       IN IF ~made
          THEN /\ nextDoc' = nextDoc
               /\ FinishConvert(UnknownError,
                                <<begin, [op |-> "newProject", job |-> 0, doc |-> NoProject]>>,
                                0, FALSE)
          ELSE /\ nextDoc' = nextDoc + 1
               /\ IF ~found
                  THEN FinishConvert(ConvertTypeUnknown, lg, 0, FALSE)
                  ELSE Goto("load", [NoFrame EXCEPT !.in = in, !.out = out, !.doc = nextDoc],
                            lg)

\* exportScoreVideo, lines 534-548: project, project writer, then load
ExportScoreVideoCall(in, out, made) ==
    /\ pc = "idle"
    /\ entry' = "exportScoreVideo"
    /\ UNCHANGED <<registry, file, progress, extensionUri, jobs, loopVars>>
    /\ LET sfx == suffix(out)
           found == sfx \in ProjectWriters
           begin == [op |-> "exportScoreVideo", job |-> 0, in |-> in, out |-> out]
           lg == <<begin,
                   [op |-> "newProject", job |-> 0, doc |-> nextDoc],
                   [op |-> "projectWriter", job |-> 0, suffix |-> sfx, found |-> found]>>
       IN IF ~made
          THEN /\ nextDoc' = nextDoc
               /\ FinishConvert(UnknownError,
                                <<begin, [op |-> "newProject", job |-> 0, doc |-> NoProject]>>,
                                0, FALSE)
          ELSE /\ nextDoc' = nextDoc + 1
               /\ IF ~found
                  THEN FinishConvert(ConvertTypeUnknown, lg, 0, FALSE)
                  ELSE Goto("load", [NoFrame EXCEPT !.in = in, !.out = out, !.doc = nextDoc],
                            lg)

\* the call has returned; the controller is ready for the next one
Return ==
    /\ pc = "done"
    /\ pc' = "idle"
    /\ entry' = "none"
    /\ file' = NoFile
    /\ progress' = FALSE
    /\ extensionUri' = FALSE
    /\ jobs' = <<>>
    /\ k' = 0
    /\ current' = 0
    /\ errors' = <<>>
    /\ ret' = NoRet
    /\ nextDoc' = 1
    /\ fc' = NoFrame
    /\ openFiles' = {}
    /\ log' = <<>>
    /\ UNCHANGED <<registry, currentProject>>

-----------------------------------------------------------------------------
(* Steps of a conversion *)

stepFrame == <<registry, callInputs, loopVars, nextDoc>>

\* a plausible slip: the loader's error is returned as it is
loadFailureVerbatim(r) == r

\* lines 144-147 and 220-223: what is returned when the load failed with r
loadFailure(r) == InFileFailedLoad

\* lines 143-147 (fileConvert) and 219-223 (convertScoreParts): the load
Load(r) ==
    /\ pc = "load"
    /\ UNCHANGED stepFrame
    /\ LET ok == r = Ok
           lg == log \o <<[op |-> "load", job |-> fc.job, doc |-> fc.doc,
                           in |-> fc.in, ret |-> r, ok |-> ok]>>
       IN IF ~ok THEN FinishConvert(loadFailure(r), lg, fc.job, FALSE)
          ELSE IF entry = "convertScoreParts" THEN Goto("parts", fc, lg)
          ELSE IF entry = "exportScoreVideo" THEN Goto("writeProject", fc, lg)
          ELSE IF fc.topts # "none" THEN Goto("transpose", fc, lg)
          ELSE Goto("dispatch", fc, lg)

\* lines 555-561 of exportScoreVideo: writer->write(notationProject, out)
WriteProject(ok) ==
    /\ pc = "writeProject"
    /\ UNCHANGED stepFrame
    /\ FinishConvert(IF ok THEN Ok ELSE OutFileFailedWrite,
                     log \o <<[op |-> "writeProject", job |-> fc.job, doc |-> fc.doc,
                               path |-> fc.out, slot |-> currentProject, ok |-> ok]>>,
                     fc.job, FALSE)

\* lines 154-160: ConverterUtils::applyTranspose
ApplyTranspose(r) ==
    /\ pc = "transpose"
    /\ UNCHANGED stepFrame
    /\ LET ok == r = Ok
           lg == log \o <<[op |-> "applyTranspose", job |-> fc.job, doc |-> fc.doc,
                           ret |-> r, ok |-> ok]>>
       IN IF ~ok THEN FinishConvert(r, lg, fc.job, FALSE)
          ELSE Goto("dispatch", fc, lg)

\* lines 162-198: the project becomes current, the DEFER is registered and
\* the branch is taken
Dispatch ==
    /\ pc = "dispatch"
    /\ UNCHANGED stepFrame
    /\ LET s == strategyOf(fc.out, extensionUri)
           frame == [fc EXCEPT !.defer = TRUE]
       IN /\ currentProject' = fc.doc
          /\ log' = log \o <<[op |-> "setCurrentProject", job |-> fc.job, doc |-> fc.doc],
                             [op |-> "dispatch", job |-> fc.job, strategy |-> s]>>
          /\ UNCHANGED <<errors, ret, openFiles>>
          /\ IF s = "convertScoreParts" THEN pc' = "parts" /\ fc' = frame
             ELSE IF s = "convertByExtension" THEN pc' = "perform" /\ fc' = frame
             ELSE IF s = "save" THEN pc' = "save" /\ fc' = frame
             ELSE IF s = "convertPageByPage"
             THEN pc' = "pages" /\ fc' = [frame EXCEPT !.mode = "pages", !.pageOut = fc.out]
             ELSE pc' = "open" /\ fc' = [frame EXCEPT !.mode = "full", !.target = fc.out]

\* convertScoreParts(writer, masterNotation, out), lines 230-243
ConvertScoreParts ==
    /\ pc = "parts"
    /\ UNCHANGED stepFrame
    /\ LET sfx == suffix(fc.out)
       IN IF sfx = PDF_SUFFIX THEN Goto("excerpts", [fc EXCEPT !.mode = "partsPdf"], log)
          ELSE IF sfx = PNG_SUFFIX THEN Goto("excerpts", [fc EXCEPT !.mode = "partsPng"], log)
          ELSE IF sfx = MP3_SUFFIX THEN Goto("excerpts", [fc EXCEPT !.mode = "partsMp3"], log)
          ELSE FinishConvert(NotSupported, log, fc.job, fc.defer)

\* the output the part loop opens for part i
partTarget(frame, i) ==
    partOutPath(frame.out, frame.parts[i],
                IF frame.mode = "partsPdf" THEN PDF_SUFFIX
                ELSE IF frame.mode = "partsMp3" THEN MP3_SUFFIX ELSE PNG_SUFFIX)

\* entry of the loop body for part i: lines 408-413, 444-448, 467-472
EnterPart(frame, i, lg, files) ==
    IF frame.mode = "partsPng"
    THEN Step("pages", [frame EXCEPT !.pi = i, !.pageOut = partTarget(frame, i)], lg, files)
    ELSE Step("open", [frame EXCEPT !.pi = i, !.target = partTarget(frame, i)], lg, files)

\* lines 403-408, 439-444, 462-467: masterNotation->excerpts()
Excerpts(parts) ==
    /\ pc = "excerpts"
    /\ UNCHANGED stepFrame
    /\ LET lg == log \o <<[op |-> "excerpts", job |-> fc.job, out |-> fc.out,
                           parts |-> parts]>>
       IN IF parts = <<>> THEN FinishConvert(Ok, lg, fc.job, fc.defer)
          ELSE EnterPart([fc EXCEPT !.parts = parts], 1, lg, openFiles)

\* line 350: notation->elements()->pages().size(), and the first file path;
\* with no page the loop body is not entered and Ok is returned to the
\* caller, the part loop or fileConvert
Pages(n) ==
    /\ pc = "pages"
    /\ UNCHANGED stepFrame
    /\ LET lg == log \o <<[op |-> "pages", job |-> fc.job, part |-> fc.pi,
                           out |-> fc.pageOut, n |-> n]>>
       IN IF n > 0
          THEN Goto("open", [fc EXCEPT !.pages = n, !.gi = 0,
                                       !.target = pageFilePath(fc.pageOut, 0)], lg)
          ELSE IF fc.mode = "partsPng" /\ fc.pi < Len(fc.parts)
          THEN EnterPart([fc EXCEPT !.pages = 0, !.gi = 0], fc.pi + 1, lg, openFiles)
          ELSE FinishConvert(Ok, lg, fc.job, fc.defer)

\* a plausible slip: the result of the extension is not tested
PerformUnchecked(ok) ==
    /\ pc = "perform"
    /\ UNCHANGED stepFrame
    /\ Goto("open", [fc EXCEPT !.mode = "ext", !.target = fc.out],
            log \o <<[op |-> "perform", job |-> fc.job, doc |-> fc.doc,
                      slot |-> currentProject, ok |-> ok]>>)

\* lines 314-317: extensionsProvider()->perform(extensionUri)
Perform(ok) ==
    /\ pc = "perform"
    /\ UNCHANGED stepFrame
    /\ LET lg == log \o <<[op |-> "perform", job |-> fc.job, doc |-> fc.doc,
                           slot |-> currentProject, ok |-> ok]>>
       IN IF ~ok THEN FinishConvert(ExtensionError, lg, fc.job, fc.defer)
          ELSE Goto("open", [fc EXCEPT !.mode = "ext", !.target = fc.out], lg)

\* line 184: notationProject->save(out)
Save(ok) ==
    /\ pc = "save"
    /\ UNCHANGED stepFrame
    /\ FinishConvert(IF ok THEN Ok ELSE SaveError,
                     log \o <<[op |-> "save", job |-> fc.job, doc |-> fc.doc,
                               path |-> fc.out, slot |-> currentProject, ok |-> ok]>>,
                     fc.job, fc.defer)

\* the part (0 when the whole score is written) and the page (-1 when the
\* notation is written in one piece) that the File at hand is for
partOf(frame) ==
    IF frame.mode \in {"partsPdf", "partsMp3", "partsPng"} THEN frame.pi ELSE 0
pageOf(frame) ==
    IF frame.mode \in {"pages", "partsPng"} THEN frame.gi ELSE -1

\* lines 319-322, 355-358, 381-384, 413-416, 472-475: file.open(WriteOnly)
Open(ok) ==
    /\ pc = "open"
    /\ UNCHANGED stepFrame
    /\ LET lg == log \o <<[op |-> "open", job |-> fc.job, part |-> partOf(fc),
                           page |-> pageOf(fc), path |-> fc.target,
                           others |-> openFiles, ok |-> ok]>>
       IN IF ~ok THEN FinishConvert(OutFileFailedOpen, lg, fc.job, fc.defer)
          ELSE /\ pc' = "write"
               /\ openFiles' = openFiles \cup {fc.target}
               /\ log' = lg
               /\ UNCHANGED <<currentProject, errors, ret, fc>>

\* the options and the notation of the write call of each converter
writeEvent(frame, slot, ok) ==
    [op |-> "write", job |-> frame.job, doc |-> frame.doc,
     part |-> partOf(frame),
     path |-> frame.target,
     page |-> pageOf(frame),
     unit |-> IF frame.mode \in {"partsPdf", "partsMp3"} THEN "PER_PART" ELSE "none",
     slot |-> slot, ok |-> ok]

\* a plausible slip: file.close() is left out, the File staying open
AfterCloseLeftOpen(lg) ==
    IF fc.mode \in {"pages", "partsPng"} /\ fc.gi + 1 < fc.pages
    THEN Step("open", [fc EXCEPT !.gi = fc.gi + 1,
                                 !.target = pageFilePath(fc.pageOut, fc.gi + 1)],
              lg, openFiles)
    ELSE IF fc.mode \in {"partsPdf", "partsMp3", "partsPng"} /\ fc.pi < Len(fc.parts)
    THEN EnterPart(fc, fc.pi + 1, lg, openFiles)
    ELSE FinishConvert(Ok, lg, fc.job, fc.defer)

\* after file.close(): the next page, the next part, or the return of Ok
AfterClose(lg) ==
    IF fc.mode \in {"pages", "partsPng"} /\ fc.gi + 1 < fc.pages
    THEN Step("open", [fc EXCEPT !.gi = fc.gi + 1,
                                 !.target = pageFilePath(fc.pageOut, fc.gi + 1)],
              lg, openFiles \ {fc.target})
    ELSE IF fc.mode \in {"partsPdf", "partsMp3", "partsPng"} /\ fc.pi < Len(fc.parts)
    THEN EnterPart(fc, fc.pi + 1, lg, openFiles \ {fc.target})
    ELSE FinishConvert(Ok, lg, fc.job, fc.defer)

\* a plausible slip: a part whose write failed is passed over and the
\* remaining parts are still written
WriteKeepGoing(ok) ==
    /\ pc = "write"
    /\ UNCHANGED stepFrame
    /\ LET lg == log \o <<writeEvent(fc, currentProject, ok)>>
       IN IF ~ok /\ fc.mode \in {"partsPdf", "partsMp3"} /\ fc.pi < Len(fc.parts)
          THEN EnterPart(fc, fc.pi + 1, lg, openFiles \ {fc.target})
          ELSE IF ~ok THEN FinishConvert(OutFileFailedWrite, lg, fc.job, fc.defer)
          ELSE AfterClose(lg \o <<[op |-> "close", job |-> fc.job, path |-> fc.target]>>)

\* writer->write(...) and file.close(): lines 325-331, 367-373, 387-393,
\* 422-428, 481-487
Write(ok) ==
    /\ pc = "write"
    /\ UNCHANGED stepFrame
    /\ LET lg == log \o <<writeEvent(fc, currentProject, ok)>>
       IN IF ~ok THEN FinishConvert(OutFileFailedWrite, lg, fc.job, fc.defer)
          ELSE AfterClose(lg \o <<[op |-> "close", job |-> fc.job, path |-> fc.target]>>)

-----------------------------------------------------------------------------
(* The controller *)

Init ==
    /\ pc = "idle"
    /\ entry = "none"
    /\ registry \in Registries
    /\ currentProject = NoProject
    /\ progress = FALSE
    /\ extensionUri = FALSE
    /\ file = NoFile
    /\ jobs = <<>>
    /\ k = 0
    /\ current = 0
    /\ errors = <<>>
    /\ ret = NoRet
    /\ nextDoc = 1
    /\ fc = NoFrame
    /\ openFiles = {}
    /\ log = <<>>

Next ==
    \/ \E f \in BatchFiles, prog \in BOOLEAN, ext \in BOOLEAN : BatchConvertCall(f, prog, ext)
    \/ \E made \in BOOLEAN : BatchNextJob(made)
    \/ BatchFinish
    \/ \E out \in CallOuts, json \in TransposeJsons, ext \in BOOLEAN, made \in BOOLEAN :
           FileConvertCall(InA, out, json, ext, made)
    \/ \E out \in CallOuts, made \in BOOLEAN : ConvertScorePartsCall(InA, out, made)
    \/ \E out \in VideoOuts, made \in BOOLEAN : ExportScoreVideoCall(InA, out, made)
    \/ \E ok \in BOOLEAN : WriteProject(ok)
    \/ \E r \in LoadRets : Load(r)
    \/ \E r \in TransposeRets : ApplyTranspose(r)
    \/ Dispatch
    \/ ConvertScoreParts
    \/ \E parts \in PartLists : Excerpts(parts)
    \/ \E n \in PageCounts : Pages(n)
    \/ \E ok \in BOOLEAN : Perform(ok)
    \/ \E ok \in BOOLEAN : Save(ok)
    \/ \E ok \in BOOLEAN : Open(ok)
    \/ \E ok \in BOOLEAN : Write(ok)
    \/ Return

Spec == Init /\ [][Next]_vars

-----------------------------------------------------------------------------
(* parseBatchJob on its own *)

ParseApply ==
    /\ pc = "idle"
    /\ pc' = "done"
    /\ entry' = "parseBatchJob"
    /\ jobs' = parseBatchJob(file).val
    /\ ret' = [code |-> parseBatchJob(file).ret, msg |-> <<>>]
    /\ UNCHANGED <<registry, currentProject, progress, extensionUri, file, k, current,
                   errors, nextDoc, fc, openFiles, log>>

InitParse ==
    /\ pc = "idle"
    /\ entry = "none"
    /\ registry = AllWriters
    /\ currentProject = NoProject
    /\ progress = FALSE
    /\ extensionUri = FALSE
    /\ file \in ParseFiles
    /\ jobs = <<>>
    /\ k = 0
    /\ current = 0
    /\ errors = <<>>
    /\ ret = NoRet
    /\ nextDoc = 1
    /\ fc = NoFrame
    /\ openFiles = {}
    /\ log = <<>>

NextParse == ParseApply

SpecParse == InitParse /\ [][NextParse]_vars

-----------------------------------------------------------------------------
(* Reading the log *)

Sel(op) == SelectSeq(log, LAMBDA e : e.op = op)

Positions(op) == {i \in 1..Len(log) : log[i].op = op}

BeginPositionsUpTo(i) ==
    {b \in 1..i : log[b].op \in {"fileConvert", "convertScoreParts", "exportScoreVideo"}}

\* batchConvert got past the parse of the job file
BatchParsed == entry = "batchConvert" /\ parseBatchJob(file).ret = Ok

\* the job file has been parsed into jobs, by batchConvert or on its own
Parsed ==
    \/ BatchParsed
    \/ entry = "parseBatchJob" /\ pc = "done" /\ ret.code = Ok

\* the begin of the conversion that position i belongs to
BeginOf(i) ==
    CHOOSE b \in BeginPositionsUpTo(i) : \A c \in BeginPositionsUpTo(i) : c <= b

\* the position of the return that ends the conversion begun at position i,
\* or the end of the log while that conversion runs
EndOf(i) ==
    LET rs == {r \in Positions("return") : r > i}
    IN IF rs = {} THEN Len(log) ELSE CHOOSE r \in rs : \A q \in rs : r <= q

BeginPositions ==
    Positions("fileConvert") \cup Positions("convertScoreParts")
        \cup Positions("exportScoreVideo")

-----------------------------------------------------------------------------
(* Claims *)

\* C1: batchConvert over a parsed list of N jobs invokes the single-job
\* conversion exactly once per job, in list order: at any moment the
\* conversions begun are those of jobs 1..k in that order, and when the call
\* has returned every job has been begun, whatever earlier jobs returned.
C1_EveryJobConvertedInOrder ==
    BatchParsed =>
        LET convs == Sel("fileConvert")
        IN /\ Len(convs) = k
           /\ k <= Len(jobs)
           /\ \A i \in 1..Len(convs) :
                  /\ convs[i].job = i
                  /\ convs[i].in = jobs[i].in
                  /\ convs[i].out = jobs[i].out
           /\ (pc = "done" => k = Len(jobs))

\* a batch of three jobs whose second job failed to load and whose third
\* job was converted all the same
C1_Witness ==
    /\ BatchParsed
    /\ pc = "done"
    /\ Len(jobs) >= 3
    /\ \E r \in Positions("return") : log[r].job = 2 /\ log[r].code = InFileFailedLoad
    /\ \E c \in Positions("fileConvert") : log[c].job = 3

\* C2: after the job loop batchConvert returns ConvertFailed iff at least
\* one conversion failed and success otherwise; the message has one entry
\* per failed job, in job order, naming that job's input and output path.
C2_AggregateResult ==
    (BatchParsed /\ pc = "done") =>
        LET failed == SelectSeq(Sel("return"), LAMBDA e : e.code # Ok)
        IN /\ (ret.code = ConvertFailed <=> failed # <<>>)
           /\ (ret.code = Ok <=> failed = <<>>)
           /\ Len(ret.msg) = Len(failed)
           /\ \A i \in 1..Len(failed) :
                  /\ ret.msg[i].err = failed[i].code
                  /\ ret.msg[i].in = jobs[failed[i].job].in
                  /\ ret.msg[i].out = jobs[failed[i].job].out
           /\ \A i, j \in 1..Len(failed) : i < j => failed[i].job < failed[j].job

\* a batch in which one job succeeded and two others failed
C2_Witness ==
    /\ BatchParsed
    /\ pc = "done"
    /\ ret.code = ConvertFailed
    /\ Len(ret.msg) = 2
    /\ \E r \in Positions("return") : log[r].code = Ok

\* C3: with a progress collaborator, every run of batchConvert calls finish
\* exactly once, with the result batchConvert returns, as the last
\* notification; start is the first one and nothing is reported after finish.
C3_FinishExactlyOnce ==
    (entry = "batchConvert" /\ progress) =>
        /\ log # <<>> /\ log[1].op = "start"
        /\ Cardinality(Positions("start")) = 1
        /\ (pc # "done" => Positions("finish") = {})
        /\ (pc = "done" => /\ Positions("finish") = {Len(log)}
                           /\ log[Len(log)].ret = ret)

\* a run with a collaborator in which some job failed and finish was called
C3_Witness ==
    /\ entry = "batchConvert" /\ progress
    /\ pc = "done"
    /\ ret.code = ConvertFailed
    /\ \E r \in Positions("return") : log[r].code = Ok
    /\ log[Len(log)].op = "finish"

\* C4: the current-project slot is empty whenever a conversion has returned:
\* at every return of a conversion, at every progress report, when finish is
\* called and between calls.
C4_SlotClearedOnReturn ==
    /\ (pc \in {"idle", "loop", "done"} => currentProject = NoProject)
    /\ \A i \in 1..Len(log) :
           log[i].op \in {"return", "progress", "finish"} => log[i].slot = NoProject

\* a job that made its project current and then failed, followed by the
\* progress report of the next job
C4_Witness ==
    \E i, j, l \in 1..Len(log) :
        /\ i < j /\ j < l
        /\ log[i].op = "setCurrentProject"
        /\ log[j].op = "return" /\ log[j].code = OutFileFailedWrite
        /\ log[j].job = log[i].job
        /\ log[l].op = "progress"

\* C5: whenever the controller invokes a writer's write, the extension
\* runner's perform or the document's save, the current-project slot holds
\* the document loaded for that job, in fileConvert and in the path-taking
\* convertScoreParts alike.
C5_SlotHoldsLoadedDocument ==
    \A i \in 1..Len(log) :
        log[i].op \in {"write", "perform", "save"} =>
            log[i].doc # NoProject /\ log[i].slot = log[i].doc

\* the writers that the lookup of the conversion begun at b draws on: the
\* writers of projectRW() for exportScoreVideo, the registry otherwise
C6_WritersOf(b) ==
    IF log[b].op = "exportScoreVideo" THEN ProjectWriters ELSE registry

C6_Lookups == {j \in 1..Len(log) : log[j].op \in {"writer", "projectWriter"}}

\* C6: a conversion whose output suffix has no registered writer makes no
\* load and returns ConvertTypeUnknown from the failed lookup, and every load
\* is preceded, within its conversion, by a successful lookup of the writer
\* for the suffix of that conversion's output.  A job of fileConvert looks
\* the writer up first and so always returns ConvertTypeUnknown; the
\* path-taking entry points make the project first and return UnknownError,
\* without any lookup, only when no project was made.
C6_LoadOnlyAfterWriterFound ==
    /\ \A i \in Positions("load") :
           LET b == BeginOf(i)
           IN /\ EndOf(b) >= i
              /\ \E j \in b..(i - 1) :
                     /\ j \in C6_Lookups
                     /\ log[j].found
                     /\ log[j].suffix = suffix(log[b].out)
                     /\ log[j].suffix \in C6_WritersOf(b)
    /\ \A b \in BeginPositions :
           suffix(log[b].out) \notin C6_WritersOf(b) =>
               LET r == EndOf(b)
               IN /\ log[r].op = "return"
                  /\ \A m \in b..r : log[m].op # "load"
                  /\ \/ /\ log[r].code = ConvertTypeUnknown
                        /\ \E j \in (b + 1)..(r - 1) : j \in C6_Lookups /\ ~log[j].found
                     \/ /\ log[r].code = UnknownError
                        /\ log[b].op # "fileConvert"
                        /\ r = b + 2
                        /\ log[b + 1].op = "newProject"
                        /\ log[b + 1].doc = NoProject
                  /\ log[b].op = "fileConvert" => log[r].code = ConvertTypeUnknown

\* a batch in which one job was refused for its unknown suffix, although a
\* project could have been made for it, and another job was loaded after its
\* writer was found
C6_Witness ==
    /\ entry = "batchConvert"
    /\ \E b \in BeginPositions :
           /\ suffix(log[b].out) \notin registry
           /\ log[EndOf(b)].op = "return"
           /\ log[EndOf(b)].code = ConvertTypeUnknown
    /\ Positions("load") # {}

\* the decision table of the conversion strategy, in its fixed precedence
C7_DecisionTable(hasWildcard, hasExtension, isNativeFormat, isPageSegmented) ==
    CASE hasWildcard -> "convertScoreParts"
      [] ~hasWildcard /\ hasExtension -> "convertByExtension"
      [] ~hasWildcard /\ ~hasExtension /\ isNativeFormat -> "save"
      [] ~hasWildcard /\ ~hasExtension /\ ~isNativeFormat /\ isPageSegmented
             -> "convertPageByPage"
      [] OTHER -> "convertFullNotation"

\* the strategy a collaborator call belongs to
C7_StrategiesOf(e) ==
    IF e.op = "perform" THEN {"convertByExtension"}
    ELSE IF e.op = "save" THEN {"save"}
    ELSE IF e.op = "write" /\ e.part > 0 THEN {"convertScoreParts"}
    ELSE IF e.op = "write" /\ e.page >= 0 THEN {"convertPageByPage"}
    ELSE IF e.op = "write" THEN {"convertByExtension", "convertFullNotation"}
    ELSE {"convertScoreParts", "convertByExtension", "save", "convertPageByPage",
          "convertFullNotation"}

\* C7: after a successful load fileConvert takes exactly one branch, the one
\* the decision table gives for (placeholder in the base name, extension
\* supplied, native suffix, page-segmented suffix), and every extension,
\* save and write call of the job belongs to that branch.
C7_StrategyByPrecedence ==
    \A d \in Positions("dispatch") :
        LET b == BeginOf(d)
            r == EndOf(b)
            out == log[b].out
            sfx == suffix(out)
        IN /\ log[d].strategy =
                  C7_DecisionTable(Contains(completeBasename(out), Placeholder),
                                   extensionUri,
                                   sfx \in {MSCZ, MSCX, MSCS},
                                   sfx \in {PNG_SUFFIX, SVG_SUFFIX})
           /\ \A m \in b..r : log[m].op = "dispatch" => m = d
           /\ \A m \in d..r : log[d].strategy \in C7_StrategiesOf(log[m])

\* a templated png job with an extension supplied went per part, and a page
\* of a part was written
C7_Witness ==
    \E d \in Positions("dispatch") :
        /\ extensionUri
        /\ suffix(log[BeginOf(d)].out) = PNG_SUFFIX
        /\ log[d].strategy = "convertScoreParts"
        /\ \E m \in d..Len(log) : log[m].op = "write" /\ log[m].part > 0 /\ log[m].ok

\* C8: a conversion to a native save format, with no placeholder and no
\* extension, goes to the document's save and past the writer registry: no
\* writer write is made and the outcome is never the registry's refusal.
C8_NativeSaveBypassesRegistry ==
    \A b \in Positions("fileConvert") :
        LET out == log[b].out
        IN (/\ suffix(out) \in {MSCZ, MSCX, MSCS}
            /\ ~Contains(completeBasename(out), Placeholder)
            /\ ~extensionUri
            /\ log[EndOf(b)].op = "return")
           => /\ log[EndOf(b)].code # ConvertTypeUnknown
              /\ \A m \in b..EndOf(b) : log[m].op # "write"

\* the element of the job file that job n is made from: the object, and the
\* position in its "out" array (0 for a string "out")
C10_OriginsOfObject(arr, i) ==
    IF arr[i].out.t = "string" THEN <<[obj |-> i, item |-> 0]>>
    ELSE IF arr[i].out.t = "array"
    THEN [j \in 1..Len(arr[i].out.a) |-> [obj |-> i, item |-> j]]
    ELSE <<>>

RECURSIVE C10_OriginsFrom(_, _)
C10_OriginsFrom(arr, i) ==
    IF i > Len(arr) THEN <<>>
    ELSE C10_OriginsOfObject(arr, i) \o C10_OriginsFrom(arr, i + 1)

C10_Origins == C10_OriginsFrom(file.arr, 1)

\* a path with its native separators turned into "/"
C10_Slashed(path) == [i \in 1..Len(path) |-> IF path[i] = "\\" THEN "/" ELSE path[i]]

\* C9: an element [prefix, suffix] of an "out" array gives the job whose
\* output is prefix + placeholder + "." + suffix.
C9_TemplatedOutput ==
    Parsed =>
        \A n \in 1..Len(jobs) :
            n <= Len(C10_Origins) =>
                LET o == C10_Origins[n]
                    item == file.arr[o.obj].out.a[o.item]
                IN (o.item > 0 /\ item.t = "array" /\ Len(item.a) = 2) =>
                       jobs[n].out = C10_Slashed(item.a[1].s) \o <<Placeholder, ".">>
                                         \o item.a[2].s

\* C10: on a successful parse a string "out" gives one job and an array
\* "out" one job per element, in array order, at the parent's position; each
\* job has its parent's input path and transform, a string element's job
\* has that string as its output.
C10_JobsFollowDeclarationOrder ==
    Parsed =>
        /\ Len(jobs) = Len(C10_Origins)
        /\ \A n \in 1..Len(jobs) :
               n <= Len(C10_Origins) =>
                   LET o == C10_Origins[n]
                       parent == file.arr[o.obj]
                   IN /\ jobs[n].in = C10_Slashed(parent.in.s)
                      /\ jobs[n].transposeOptions = parent.transpose
                      /\ (o.item = 0 => jobs[n].out = C10_Slashed(parent.out.s))
                      /\ (o.item > 0 /\ parent.out.a[o.item].t = "string"
                              => jobs[n].out = C10_Slashed(parent.out.a[o.item].s))

\* two objects, the first with an array of a string and a pair and with a
\* transform, the second with a string, parsed into three jobs
C10_Witness ==
    /\ Parsed
    /\ Len(file.arr) = 2
    /\ file.arr[1].out.t = "array" /\ Len(file.arr[1].out.a) = 2
    /\ file.arr[1].out.a[1].t = "string"
    /\ file.arr[1].transpose = "t1"
    /\ file.arr[2].out.t = "string"
    /\ file.arr[2].in # file.arr[1].in
    /\ Len(jobs) = 3

\* an "out" of the wire format: a string, or an array of strings and
\* [prefix, suffix] pairs
C11_WellFormedOut(v) ==
    \/ v.t = "string"
    \/ /\ v.t = "array"
       /\ \A i \in 1..Len(v.a) :
              v.a[i].t = "string" \/ (v.a[i].t = "array" /\ Len(v.a[i].a) = 2)

\* C11: a job file that parses successfully, every object of which has an
\* "out" of the wire format, gives at least as many jobs as it has objects.
C11_JobCountAtLeastObjects ==
    (Parsed /\ \A i \in 1..Len(file.arr) : C11_WellFormedOut(file.arr[i].out))
        => Len(jobs) >= Len(file.arr)

\* the error the parse of a job file must end with, Ok when it must succeed
C12_ExpectedError(f) ==
    IF f.state = "unreadable" THEN BatchJobFileFailedOpen
    ELSE IF f.state \in {"malformed", "notarray"} THEN BatchJobFileFailedParse
    ELSE IF \E i \in 1..Len(f.arr) : f.arr[i].transpose = "bad" THEN TransposeParseError
    ELSE Ok

\* C12: when the job file cannot be opened, is malformed or not an array,
\* or one object's transform fails to parse, batchConvert returns that error
\* at once and processes no job: no progress report, no conversion, no load,
\* no writer call and no output file, also for the objects before the bad one.
C12_ParseFailureIsFailFast ==
    (entry = "batchConvert" /\ C12_ExpectedError(file) # Ok) =>
        /\ pc = "done"
        /\ ret.code = C12_ExpectedError(file)
        /\ k = 0 /\ current = 0
        /\ errors = <<>>
        /\ openFiles = {}
        /\ currentProject = NoProject
        /\ \A i \in 1..Len(log) : log[i].op \in {"start", "finish"}

\* a job file whose second object has the bad transform: the first object
\* was parsed into jobs, yet the call is over with start and finish only
C12_Witness ==
    /\ entry = "batchConvert" /\ progress
    /\ Len(file.arr) = 2
    /\ file.arr[1].transpose = "none" /\ file.arr[2].transpose = "bad"
    /\ jobs # <<>>
    /\ pc = "done"
    /\ ret.code = TransposeParseError
    /\ Len(log) = 2 /\ log[2].op = "finish"

\* the calls that are made on a document or with a document at hand
C13_DocumentUses ==
    {i \in 1..Len(log) :
        log[i].op \in {"load", "applyTranspose", "setCurrentProject", "perform", "save",
                       "write", "writeProject"}}

\* the calls of newProject that gave a project
C13_Made == {n \in Positions("newProject") : log[n].doc # NoProject}

\* C13: each conversion makes its own document: no two conversions make the
\* same one, every load, transform, extension, save and write of a conversion
\* is on the document made in that conversion, the slot never holds another
\* conversion's document, and a document is loaded before any transform or
\* extension has touched it.  A conversion for which no project could be made
\* uses none.
C13_EachJobLoadsItsOwnDocument ==
    /\ \A i, j \in C13_Made : i # j => log[i].doc # log[j].doc
    /\ \A n \in Positions("newProject") \ C13_Made :
           log[n + 1].op = "return" /\ log[n + 1].code = UnknownError
    /\ \A i \in C13_DocumentUses :
           /\ \E n \in BeginOf(i)..(i - 1) :
                  /\ log[n].op = "newProject"
                  /\ log[n].doc # NoProject
                  /\ log[n].doc = log[i].doc
           /\ log[i].op \in {"perform", "save", "write", "writeProject"}
                  => log[i].slot \in {NoProject, log[i].doc}
    /\ \A i \in Positions("load") :
           \A m \in 1..(i - 1) :
               log[m].op \in {"applyTranspose", "perform"} => log[m].doc # log[i].doc

\* two jobs made from one object, with the same input path: the document of
\* the first was transposed and run through the extension, and the second
\* job then loaded a document
C13_Witness ==
    \E i, j, l \in 1..Len(log) :
        /\ i < j /\ j < l
        /\ log[i].op = "applyTranspose" /\ log[i].ok /\ log[i].job = 1
        /\ log[j].op = "perform" /\ log[j].ok /\ log[j].job = 1
        /\ log[l].op = "load" /\ log[l].ok /\ log[l].job = 2
        /\ Len(file.arr) = 1
        /\ jobs[1].in = jobs[2].in

\* the opens and writes of the conversion whose parts were listed at e
C14_FileCalls(e) ==
    {i \in (e + 1)..EndOf(e) : log[i].op \in {"open", "write"}}

\* the entries into the body of the part loop begun at e: the open of the
\* part's file for pdf and mp3, the page loop of the part for png
C14_Visits(e) ==
    {i \in (e + 1)..EndOf(e) :
        \/ log[i].op = "pages"
        \/ log[i].op = "open" /\ log[i].page = -1}

\* the successful writes for the part visited at v
C14_Written(e, v) ==
    {w \in C14_FileCalls(e) : log[w].op = "write" /\ log[w].ok /\ log[w].part = log[v].part}

\* C14: per-part conversion goes through the parts in their order, none
\* passed over; every open and write is for the part being visited; a failed
\* open or write is followed at once by the return of OutFileFailedOpen or
\* OutFileFailedWrite, so nothing is opened or written for a later part;
\* nothing but open, write and close is done, so what was written for the
\* earlier parts stays; Ok is returned only when every part was visited and
\* written, a png part page by page and so not at all when it has no page.
C14_PartsInOrderStopAtFirstFailure ==
    \A e \in Positions("excerpts") :
        LET r == EndOf(e)
            calls == C14_FileCalls(e)
            visits == C14_Visits(e)
            n == Len(log[e].parts)
        IN /\ \A v \in visits :
                  /\ log[v].part = Cardinality({u \in visits : u <= v})
                  /\ log[v].part \in 1..n
                  /\ \A u \in visits : u < v =>
                         \/ log[u].op = "pages" /\ Cardinality(C14_Written(e, u)) = log[u].n
                         \/ log[u].op = "open" /\ Cardinality(C14_Written(e, u)) = 1
           /\ \A i \in calls :
                  /\ \E v \in visits :
                         /\ v <= i
                         /\ log[v].part = log[i].part
                         /\ \A u \in visits : u <= i => u <= v
                  /\ ~log[i].ok =>
                         /\ r = i + 1
                         /\ log[r].op = "return"
                         /\ log[r].code = IF log[i].op = "open" THEN OutFileFailedOpen
                                          ELSE OutFileFailedWrite
           /\ \A m \in (e + 1)..r :
                  log[m].op \in {"open", "write", "close", "pages", "return"}
           /\ (log[r].op = "return" /\ log[r].code = Ok) =>
                  /\ Cardinality(visits) = n
                  /\ \A u \in visits :
                         \/ log[u].op = "pages" /\ Cardinality(C14_Written(e, u)) = log[u].n
                         \/ log[u].op = "open" /\ Cardinality(C14_Written(e, u)) = 1
           /\ log[r].op = "return" =>
                  log[r].code \in {Ok, OutFileFailedOpen, OutFileFailedWrite}

\* a score of two parts converted to mp3: the write of the first part
\* failed and the conversion returned without a call for the second
C14_Witness ==
    \E e \in Positions("excerpts") :
        /\ Len(log[e].parts) = 2
        /\ suffix(log[e].out) = MP3_SUFFIX
        /\ log[EndOf(e)].op = "return"
        /\ log[EndOf(e)].code = OutFileFailedWrite
        /\ \A i \in C14_FileCalls(e) : log[i].part = 1

\* the end of the page loop begun at g: the next page loop, or the return
C15_LoopEnd(g) ==
    LET ends == {i \in (g + 1)..Len(log) : log[i].op \in {"pages", "return"}}
    IN IF ends = {} THEN Len(log) ELSE CHOOSE i \in ends : \A j \in ends : i <= j

C15_WritesOf(g) == {i \in (g + 1)..C15_LoopEnd(g) : log[i].op = "write"}

\* C15: the page loop over a notation of P pages writes the pages in
\* increasing order, the call for page i (from 0) into the file base-(i+1).ext
\* of the directory of the output; a failed open or write is followed at once
\* by the return of OutFileFailedOpen or OutFileFailedWrite; a loop that met
\* no failure has made exactly P writer calls.
C15_PageByPage ==
    \A g \in Positions("pages") :
        LET out == log[g].out
            e == C15_LoopEnd(g)
            writes == C15_WritesOf(g)
        IN /\ Cardinality(writes) <= log[g].n
           /\ \A w \in writes :
                  /\ log[w].page = Cardinality({x \in writes : x < w})
                  /\ log[w].unit = "none"
                  /\ log[w].path = dirpath(out) \o <<"/">> \o completeBasename(out)
                                       \o <<"-", ToString(log[w].page + 1), ".">>
                                       \o suffix(out)
                  /\ w > 1 /\ log[w - 1].op = "open" /\ log[w - 1].ok
                  /\ log[w - 1].path = log[w].path
           /\ \A i \in (g + 1)..e :
                  (log[i].op \in {"open", "write"} /\ ~log[i].ok) =>
                      /\ e = i + 1
                      /\ log[e].op = "return"
                      /\ log[e].code = IF log[i].op = "open" THEN OutFileFailedOpen
                                       ELSE OutFileFailedWrite
           /\ (e > g /\ (log[e].op = "pages" \/ (log[e].op = "return" /\ log[e].code = Ok))) =>
                  /\ Cardinality(writes) = log[g].n
                  /\ \A w \in writes : log[w].ok

\* a notation of two pages written to svg: page 0 went into b-1.svg, page 1
\* into b-2.svg, and the conversion returned Ok
C15_Witness ==
    \E g \in Positions("pages") :
        /\ log[g].n = 2
        /\ suffix(log[g].out) = SVG_SUFFIX
        /\ Cardinality(C15_WritesOf(g)) = 2
        /\ \E w \in C15_WritesOf(g) :
               log[w].page = 1 /\ FileName(log[w].path) = <<"b", "-", "2", ".", "svg">>
        /\ log[C15_LoopEnd(g)].op = "return" /\ log[C15_LoopEnd(g)].code = Ok

\* the conversion begun at b asks for a templated output of a kind that has
\* a writer but is not split into parts
C16_TemplatedOtherKind(b) ==
    /\ Contains(completeBasename(log[b].out), Placeholder)
    /\ suffix(log[b].out) \notin {PDF_SUFFIX, PNG_SUFFIX, MP3_SUFFIX}
    /\ suffix(log[b].out) \in registry
    /\ log[b].op \in {"fileConvert", "convertScoreParts"}

\* the input of the conversion begun at b was loaded and, if asked for,
\* transposed
C16_Prepared(b) ==
    /\ \E m \in b..EndOf(b) : log[m].op = "load" /\ log[m].ok
    /\ \A m \in b..EndOf(b) : log[m].op = "applyTranspose" => log[m].ok

\* C16: a templated output whose suffix has a writer but is none of pdf, png
\* and mp3 is refused: no output file is opened and no write, extension or
\* save is called, with or without an extension, and the conversion, once
\* its input is loaded and transposed, returns NotSupported; before that it
\* can only fail for want of a project, in the load or in the transform.
C16_TemplateOnlyForPartKinds ==
    \A b \in BeginPositions :
        C16_TemplatedOtherKind(b) =>
            /\ \A m \in b..EndOf(b) :
                   log[m].op \notin {"open", "write", "perform", "save", "excerpts", "pages"}
            /\ log[EndOf(b)].op = "return" =>
                   /\ C16_Prepared(b) <=> log[EndOf(b)].code = NotSupported
                   /\ log[EndOf(b)].code \in {NotSupported, InFileFailedLoad, UnknownError}
                                                  \cup (TransposeRets \ {Ok})
                   /\ log[EndOf(b)].code = UnknownError =>
                          \E m \in b..EndOf(b) :
                              log[m].op = "newProject" /\ log[m].doc = NoProject

\* fileConvert to *.svg with an extension supplied returned NotSupported
C16_Witness ==
    \E b \in Positions("fileConvert") :
        /\ C16_TemplatedOtherKind(b)
        /\ suffix(log[b].out) = SVG_SUFFIX
        /\ extensionUri
        /\ log[EndOf(b)].op = "return"
        /\ log[EndOf(b)].code = NotSupported

\* C17: in fileConvert a failed load is followed at once by the return of
\* InFileFailedLoad, whatever the loader returned, and a failed transform by
\* the return of the very error applyTranspose gave; the job ends there: no
\* extension, no output file, no write and no save.
C17_LoadAndTransformFailures ==
    \A i \in 1..Len(log) :
        (/\ log[i].op \in {"load", "applyTranspose"}
         /\ ~log[i].ok
         /\ log[BeginOf(i)].op = "fileConvert") =>
            /\ log[i].ret # Ok
            /\ i < Len(log)
            /\ log[i + 1].op = "return"
            /\ log[i + 1].job = log[i].job
            /\ log[i + 1].code = IF log[i].op = "load" THEN InFileFailedLoad ELSE log[i].ret
            /\ \A m \in BeginOf(i)..(i + 1) :
                   log[m].op \notin {"perform", "open", "write", "save"}

\* a batch in which two loads failed with different loader errors and a
\* transform failed with an error of its own
C17_Witness ==
    /\ entry = "batchConvert"
    /\ \E i, j \in Positions("load") :
           /\ ~log[i].ok /\ ~log[j].ok
           /\ log[i].ret # log[j].ret
    /\ \E t \in Positions("applyTranspose") :
           ~log[t].ok /\ log[t].ret # TransposeApplyError

\* the calls of kind op made from the branch taken at d to the return
C18_CallsAfter(d, op) == {m \in d..EndOf(d) : log[m].op = op}

\* C18: in the extension branch the extension is performed once, before any
\* output file is opened; a failed extension is followed at once by the
\* return of its error; otherwise the output is opened once and written by
\* one call for the whole document, whatever the suffix: no page loop and no
\* save; Ok is returned only after that one write.
C18_ExtensionThenOneWrite ==
    \A d \in Positions("dispatch") :
        log[d].strategy = "convertByExtension" =>
            LET r == EndOf(d)
                out == log[BeginOf(d)].out
                performs == C18_CallsAfter(d, "perform")
                opens == C18_CallsAfter(d, "open")
                writes == C18_CallsAfter(d, "write")
            IN /\ Cardinality(performs) <= 1
               /\ Cardinality(opens) <= 1
               /\ Cardinality(writes) <= 1
               /\ C18_CallsAfter(d, "save") = {}
               /\ C18_CallsAfter(d, "pages") = {}
               /\ \A o \in opens :
                      /\ log[o].path = out
                      /\ \E p \in performs : p < o /\ log[p].ok
               /\ \A w \in writes :
                      /\ log[w].path = out
                      /\ log[w].page = -1 /\ log[w].part = 0 /\ log[w].unit = "none"
                      /\ \E o \in opens : o < w /\ log[o].ok
               /\ \A p \in performs :
                      ~log[p].ok => /\ r = p + 1
                                    /\ log[r].op = "return"
                                    /\ log[r].code = ExtensionError
               /\ (log[r].op = "return" /\ log[r].code = Ok) =>
                      \E w \in writes : log[w].ok
               /\ log[r].op = "return" => performs # {}

\* with an extension, a conversion to svg performed the extension, then
\* made one write of the whole document and returned Ok
C18_Witness ==
    \E d \in Positions("dispatch") :
        /\ log[d].strategy = "convertByExtension"
        /\ suffix(log[BeginOf(d)].out) = SVG_SUFFIX
        /\ \E p \in C18_CallsAfter(d, "perform"), w \in C18_CallsAfter(d, "write") :
               p < w /\ log[p].ok /\ log[w].ok
        /\ log[EndOf(d)].op = "return" /\ log[EndOf(d)].code = Ok

\* the position of the n-th call of kind op, 0 when there are fewer
C19_Nth(op, n) ==
    LET ps == {p \in Positions(op) : Cardinality({q \in Positions(op) : q <= p}) = n}
    IN IF ps = {} THEN 0 ELSE CHOOSE p \in ps : TRUE

\* C19: with a progress collaborator batchConvert reports once per job
\* entered, the k-th report being (k, N, input path of job k), made after
\* the conversion of job k - 1 has returned and before that of job k starts,
\* and N reports are made in all; without a collaborator nothing is reported
\* and the jobs are converted all the same, with the result their returns
\* give.
C19_ProgressReports ==
    BatchParsed =>
        /\ progress =>
               /\ Len(Sel("progress")) = k
               /\ current = k
               /\ (pc = "done" => Len(Sel("progress")) = Len(jobs))
               /\ \A n \in 1..Len(Sel("progress")) :
                      LET p == C19_Nth("progress", n)
                      IN /\ log[p].current = n
                         /\ log[p].total = Len(jobs)
                         /\ log[p].label = jobs[n].in
                         /\ C19_Nth("fileConvert", n) = p + 1
                         /\ n > 1 => C19_Nth("return", n - 1) = p - 1
                         /\ C19_Nth("return", n) = 0 \/ C19_Nth("return", n) > p
        /\ ~progress =>
               /\ Positions("start") \cup Positions("progress") \cup Positions("finish") = {}
               /\ current = 0
               /\ Len(Sel("fileConvert")) = k
               /\ (pc = "done" =>
                      /\ k = Len(jobs)
                      /\ Len(Sel("return")) = Len(jobs)
                      /\ ret.code = IF \E r \in Positions("return") : log[r].code # Ok
                                    THEN ConvertFailed ELSE Ok)

\* a batch of three jobs with a collaborator, over two input paths: the
\* third report was made and the batch is over
C19_Witness ==
    /\ BatchParsed /\ progress
    /\ pc = "done"
    /\ Len(jobs) = 3
    /\ jobs[1].in # jobs[2].in
    /\ C19_Nth("progress", 3) > 0

\* the base name with the display name, one atom long, at every placeholder
C20_Substituted(base, name) ==
    [i \in 1..Len(base) |-> IF base[i] = Placeholder THEN name[1] ELSE base[i]]

\* the path the claim gives for a part
C20_ExpectedPath(out, name, sfx) ==
    dirpath(out) \o <<"/">> \o C20_Substituted(completeBasename(out), name)
        \o <<".">> \o sfx

\* the paths the per-part conversion begun at e resolved, with their parts:
\* the files opened for pdf and mp3, the path handed to the page loop for png
C20_Resolved(e) ==
    {i \in (e + 1)..EndOf(e) :
        \/ log[i].op = "open" /\ suffix(log[e].out) # PNG_SUFFIX
        \/ log[i].op = "pages"}

C20_PathAt(i) == IF log[i].op = "pages" THEN log[i].out ELSE log[i].path

\* C20: the output of a part is the directory of the template, "/", the
\* complete base name of the template with every placeholder replaced by
\* the display name of the part, ".", and the suffix of the kind; pdf, mp3
\* and png (before its pages are numbered) follow this one rule, and two
\* parts of the same name get the same path.
C20_PartPathIsPure ==
    \A e \in Positions("excerpts") :
        LET out == log[e].out
            parts == log[e].parts
        IN /\ suffix(out) \in {PDF_SUFFIX, PNG_SUFFIX, MP3_SUFFIX}
           /\ \A i \in C20_Resolved(e) :
                  /\ log[i].part \in 1..Len(parts)
                  /\ C20_PathAt(i) = C20_ExpectedPath(out, parts[log[i].part], suffix(out))
                  /\ \A j \in C20_Resolved(e) :
                         parts[log[i].part] = parts[log[j].part]
                             => C20_PathAt(i) = C20_PathAt(j)
           /\ \A w \in (e + 1)..EndOf(e) :
                  (log[w].op = "write" /\ suffix(out) # PNG_SUFFIX) =>
                      log[w].path = C20_ExpectedPath(out, parts[log[w].part], suffix(out))

\* the template *_*.pdf and a second part named Cello: the file opened for
\* it is ./Cello_Cello.pdf
C20_Witness ==
    \E e \in Positions("excerpts") :
        /\ log[e].out = <<"*", "_", "*", ".", "pdf">>
        /\ \E i \in C20_Resolved(e) :
               /\ log[i].part = 2
               /\ log[e].parts[2] = <<"Cello">>
               /\ log[i].path = <<".", "/", "Cello", "_", "Cello", ".", "pdf">>

\* C21: at most one output file is open at any time, and only between its
\* open and the end of its write; no other file is open when one is opened;
\* every file opened in a conversion is closed when that conversion returns,
\* after a write that succeeded and after one that failed; and none is open
\* between the jobs of a batch or between calls.
C21_FileHandlesScoped ==
    /\ Cardinality(openFiles) <= 1
    /\ openFiles # {} => pc = "write" /\ openFiles = {fc.target}
    /\ pc \in {"idle", "loop", "done"} => openFiles = {}
    /\ \A i \in 1..Len(log) :
           /\ log[i].op = "open" => log[i].others = {}
           /\ log[i].op = "return" => log[i].open = {}
           /\ log[i].op \in {"fileConvert", "convertScoreParts", "progress"} =>
                  \A o \in 1..(i - 1) :
                      (log[o].op = "open" /\ log[o].ok) =>
                          \E r \in (o + 1)..(i - 1) : log[r].op = "return"
    /\ \A o \in Positions("open") :
           (log[o].ok /\ o + 1 < Len(log)) =>
               /\ log[o + 1].op = "write"
               /\ log[o + 1].path = log[o].path
               /\ log[o + 2].op = IF log[o + 1].ok THEN "close" ELSE "return"
               /\ log[o + 1].ok => log[o + 2].path = log[o].path

\* a batch whose first job opened its output and failed to write it: the
\* conversion returned with no file open, and the second job then opened
\* its own output
C21_Witness ==
    /\ entry = "batchConvert"
    /\ \E w, o \in 1..Len(log) :
           /\ w < o
           /\ log[w].op = "write" /\ ~log[w].ok /\ log[w].job = 1
           /\ log[w + 1].op = "return" /\ log[w + 1].open = {}
           /\ log[o].op = "open" /\ log[o].ok /\ log[o].job = 2
    /\ openFiles # {}

====
